---- MODULE Spec2Model ----
(***************************************************************************)
(* ComputeEngineSSHHook.get_conn of                                        *)
(* airflow/providers/google/cloud/hooks/compute_ssh.py as a state machine. *)
(*                                                                         *)
(* One get_conn call runs on one call stack.  The collaborators            *)
(* (ComputeEngineHook, OSLoginHook, paramiko) are the environment: each of *)
(* their calls is one step whose outcome (a return value or an exception)  *)
(* is chosen nondeterministically.  Every collaborator call and every      *)
(* sleep is appended to the history variable `calls`, in program order.    *)
(*                                                                         *)
(* Strings that the code builds by concatenation (public key, ssh-keys     *)
(* value) are sequences of tokens; + is \o.                                *)
(***************************************************************************)
EXTENDS Integers, Sequences, FiniteSets, TLC

(***************************************************************************)
(* Bounds of the model.                                                    *)
(***************************************************************************)
\* max_retries ranges over -1..MaxRetriesBound
MaxRetriesBound == 2
\* metadata writes by other clients during the call
MaxExternalWrites == 1

(***************************************************************************)
(* Program constants.                                                      *)
(***************************************************************************)
\* get_conn, line 240
max_delay == 10
\* _connect_to_instance, line 287
max_time_to_wait == 5
\* get_conn, line 268
PRECONDITION_FAILED == 412

(***************************************************************************)
(* Exceptions.  type is the Python class the handlers test with            *)
(* isinstance; status is exc.resp.status of an HttpError (0 otherwise);    *)
(* msg stands for str(exc), as a sequence of pieces of text.               *)
(***************************************************************************)
Exc(type, status, msg) == [type |-> type, status |-> status, msg |-> msg]

NoExc == Exc("none", 0, <<>>)
Http412 == Exc("HttpError", 412, <<"Precondition Failed">>)
Http403 == Exc("HttpError", 403, <<"Forbidden">>)
Airflow412 == Exc("AirflowException", 0, <<"412 PRECONDITION FAILED">>)
Airflow412Detail ==
    Exc("AirflowException", 0,
        <<"Operation failed: ", "412 PRECONDITION FAILED",
          ": {'code': 'CONDITION_NOT_MET'}">>)
AirflowOther == Exc("AirflowException", 0, <<"operation failed">>)
SSHExc == Exc("SSHException", 0, <<"handshake failed">>)
OtherExc == Exc("OSError", 0, <<"socket error">>)
ExpireTimeNotInteger == Exc("AirflowException", 0, <<"The expire_time field should be a integer.">>)
ValueErrorExc == Exc("ValueError", 0, <<"invalid literal for int() with base 10">>)
TypeErrorExc == Exc("TypeError", 0, <<"int() argument must be a string or a real number">>)
ConnectionNotFound == Exc("AirflowException", 0, <<"The conn_id isn't defined">>)
UnableToEstablish == Exc("AirflowException", 0, <<"Unable to establish SSH connection.">>)
MaxRetriesExceeded == Exc("AirflowException", 0, <<"Maximum retries exceeded. Aborting operation.">>)
MissingParameters == Exc("AirflowException", 0, <<"Required parameters are missing">>)
KeyGenerationFailed == Exc("AirflowException", 0, <<"Error encountered creating ssh keys">>)

\* what the collaborators can raise
InfoOutcomes == {NoExc, Http403, OtherExc}
SetMetadataOutcomes ==
    {NoExc, Http412, Airflow412, Airflow412Detail, Http403, AirflowOther,
     OtherExc}
OsLoginOutcomes == {NoExc, AirflowOther, OtherExc}
ConnectOutcomes == {NoExc, SSHExc, OtherExc}
\* provide_authorized_gcloud().__enter__(), which runs gcloud
ScopeOutcomes == {NoExc, AirflowOther, OtherExc}

\* response.login_profile.posix_accounts, as usernames: what the login
\* registry may answer with
PosixAccountLists == {<<"root">>, <<"sa_100", "root">>}

\* variant: the last account is taken
LastAccount(posix_accounts) == posix_accounts[Len(posix_accounts)]

\* profile.posix_accounts[0].username
FirstAccount(posix_accounts) == posix_accounts[1]

(***************************************************************************)
(* Pure parts of the code.                                                 *)
(***************************************************************************)
\* `not x` for the strings get_conn tests
Falsy(s) == s = ""

\* a value of the connection's extra or of an attribute: None, a bool, a
\* text, an integer or a list; "absent" for a key the extra does not have,
\* "notset" for the NOTSET marker
Value(kind, b, s, n) == [kind |-> kind, b |-> b, s |-> s, n |-> n]
NoValue == Value("none", FALSE, "", 0)
BoolValue(b) == Value("bool", b, "", 0)
StrValue(s) == Value("str", FALSE, s, 0)
IntValue(n) == Value("int", FALSE, "", n)
ListValue == Value("list", FALSE, "", 0)
Absent == Value("absent", FALSE, "", 0)
NotSet == Value("notset", FALSE, "", 0)

\* line 41
CMD_TIMEOUT == 10

\* value.lower() for the texts the model uses
Lower(s) ==
    CASE s \in {"true", "True", "TRUE"} -> "true"
      [] s \in {"false", "False", "FALSE"} -> "false"
      [] s = "Yes" -> "yes"
      [] OTHER -> s

\* value.strip() for the texts the model uses
Strip(s) ==
    CASE s = " " -> ""
      [] s = " 600 " -> "600"
      [] OTHER -> s

\* _boolify, lines 154-162
Boolify(value) ==
    IF value.kind = "bool" THEN value.b
    ELSE IF value.kind = "str"
         THEN IF Lower(value.s) = "false" THEN FALSE
              ELSE IF Lower(value.s) = "true" THEN TRUE
              ELSE FALSE
         ELSE FALSE

\* the truth value of a value, as `if value:` takes it
Truthy(value) ==
    CASE value.kind = "bool" -> value.b
      [] value.kind = "str" -> value.s # ""
      [] value.kind = "int" -> value.n # 0
      [] value.kind = "list" -> TRUE
      [] OTHER -> FALSE

\* int(value): the number, or the error int raises
IntOf(value) ==
    CASE value.kind = "int" -> [exc |-> NoExc, n |-> value.n]
      [] value.kind = "bool" -> [exc |-> NoExc, n |-> IF value.b THEN 1 ELSE 0]
      [] value.kind = "str" ->
            IF Strip(value.s) = "600" THEN [exc |-> NoExc, n |-> 600]
            ELSE IF Strip(value.s) = "45" THEN [exc |-> NoExc, n |-> 45]
            ELSE [exc |-> ValueErrorExc, n |-> 0]
      [] OTHER -> [exc |-> TypeErrorExc, n |-> 0]

\* intify, lines 164-176
Intify(value, default) ==
    IF value.kind = "none" THEN [exc |-> NoExc, n |-> default]
    ELSE IF value.kind = "str" /\ Strip(value.s) = ""
         THEN [exc |-> NoExc, n |-> default]
         ELSE IF IntOf(value).exc = ValueErrorExc
              THEN [exc |-> ExpireTimeNotInteger, n |-> 0]
              ELSE IntOf(value)

\* self._compute_hook._get_field(name, default) for a text field: the
\* value of the extra, the default when the extra has none
GetField(value, default) == IF Falsy(value) THEN default ELSE value

\* lines 194-203: the attribute cmd_timeout after the connection was read
CmdTimeout(current, value) ==
    LET taken == IF value.kind # "absent" /\ current.kind = "notset"
                 THEN IF Truthy(value) THEN IntValue(IntOf(value).n)
                      ELSE NoValue
                 ELSE current
    IN  IF taken.kind = "notset" THEN IntValue(CMD_TIMEOUT) ELSE taken

\* _load_connection_config, lines 177-203: a connection of type gcpssh
\* overrides the attributes of the hook.  The result is the hook with the
\* assignments made so far and the exception that ended the loading, if any.
LoadConnectionConfig(h, c) ==
    IF c.conn_type = "not_found"
    THEN [hook |-> h, exc |-> ConnectionNotFound]
    ELSE IF c.conn_type # "gcpssh"
    THEN [hook |-> h, exc |-> NoExc]
    ELSE
      LET h1 == [h EXCEPT
                   !.instance_name = GetField(c.instance_name, h.instance_name),
                   !.zone = GetField(c.zone, h.zone),
                   !.user = IF ~Falsy(c.login) THEN c.login ELSE h.user,
                   !.hostname = IF ~Falsy(c.host) THEN c.host ELSE h.hostname,
                   !.use_internal_ip = Boolify(c.use_internal_ip),
                   !.use_iap_tunnel = Boolify(c.use_iap_tunnel),
                   !.use_oslogin = Boolify(c.use_oslogin)]
          e == Intify(c.expire_time, h.expire_time)
          h2 == [h1 EXCEPT !.expire_time = e.n]
          converts == /\ c.cmd_timeout.kind # "absent"
                      /\ h.cmd_timeout.kind = "notset"
                      /\ Truthy(c.cmd_timeout)
      IN  IF e.exc # NoExc
          THEN [hook |-> h1, exc |-> e.exc]
          ELSE IF converts /\ IntOf(c.cmd_timeout).exc # NoExc
               THEN [hook |-> h2, exc |-> IntOf(c.cmd_timeout).exc]
               ELSE [hook |-> [h2 EXCEPT !.cmd_timeout =
                                  CmdTimeout(h.cmd_timeout, c.cmd_timeout)],
                     exc |-> NoExc]

\* variant: project_id is left out of the list
MissingFieldsWithoutProject(h) ==
    SelectSeq(<<"instance_name", "zone">>, LAMBDA k : Falsy(h[k]))

\* [k for k in ["instance_name", "zone", "project_id"] if not getattr(self, k)]
MissingFields(h) ==
    SelectSeq(<<"instance_name", "zone", "project_id">>,
              LAMBDA k : Falsy(h[k]))

\* variant: the tunnel flag is not taken into account
UseInternalAddressIgnoringTunnel(h) == h.use_internal_ip

\* use_internal_ip argument of get_instance_address
UseInternalAddress(h) == h.use_internal_ip \/ h.use_iap_tunnel

\* paramiko.RSAKey.generate: the n-th generated key has its own material
KeyBase64(n) == "KEY" \o ToString(n)

\* f"{pkey_obj.get_name()} {pkey_obj.get_base64()} {user}"
PubKeyText(n, user) == <<"ssh-rsa", " ", KeyBase64(n), " ", user>>

\* self.user + ":" + pubkey + "\n"
KeyLine(user, pubkey) == <<user, ":">> \o pubkey \o <<"\n">>

\* index of the first item whose key is "ssh-keys", 0 when there is none
SshKeysIndex(items) ==
    IF \E i \in 1..Len(items) : items[i].key = "ssh-keys"
    THEN CHOOSE i \in 1..Len(items) :
            /\ items[i].key = "ssh-keys"
            /\ \A j \in 1..(i - 1) : items[j].key # "ssh-keys"
    ELSE 0

\* variant: the new line is put after the existing value
JoinKeysAppending(keys, value) == value \o keys

\* keys += item["value"]
JoinKeys(keys, value) == keys \o value

\* variant: without an ssh-keys item the items are replaced by the new one
InjectKeyDroppingItems(items, user, pubkey) ==
    LET keys == KeyLine(user, pubkey)
        i == SshKeysIndex(items)
    IN  IF i # 0
        THEN [items EXCEPT ![i].value = JoinKeys(keys, items[i].value)]
        ELSE <<[key |-> "ssh-keys", value |-> keys]>>

\* the for/else of _authorize_compute_engine_instance_metadata
InjectKey(items, user, pubkey) ==
    LET keys == KeyLine(user, pubkey)
        i == SshKeysIndex(items)
    IN  IF i # 0
        THEN [items EXCEPT ![i].value = JoinKeys(keys, items[i].value)]
        ELSE items \o <<[key |-> "ssh-keys", value |-> keys]>>

\* the isinstance tests of `except (HttpError, AirflowException, SSHException)`
Caught(e) == e.type \in {"HttpError", "AirflowException", "SSHException"}

\* `sub in seq` for texts
Contains(seq, sub) ==
    \E i \in 0..(Len(seq) - Len(sub)) : SubSeq(seq, i + 1, i + Len(sub)) = sub

\* the first test of the handler, lines 268-270
IsPreconditionFailed(e) ==
    \/ e.type = "HttpError" /\ e.status = PRECONDITION_FAILED
    \/ /\ e.type = "AirflowException"
       /\ Contains(e.msg, <<"412 PRECONDITION FAILED">>)

\* variant: every HttpError is taken for a precondition failure
RetryableAnyHttp(e) ==
    /\ Caught(e)
    /\ (e.type = "HttpError" \/ IsPreconditionFailed(e) \/ e.type = "SSHException")

\* the if/elif/else of the handler: TRUE when the handler does not re-raise
Retryable(e) ==
    /\ Caught(e)
    /\ (IsPreconditionFailed(e) \/ e.type = "SSHException")

\* variant: the budget is taken to be used up one cycle too early
BudgetExhaustedEarly(retry, max_retries) == retry + 1 >= max_retries

\* variant: the budget is taken to be used up one cycle too late
BudgetExhaustedLate(retry, max_retries) == retry = max_retries + 1

\* range(self.max_retries + 1) has no element
RangeEmpty(max_retries) == max_retries + 1 <= 0

\* retry == self.max_retries
BudgetExhausted(retry, max_retries) == retry = max_retries

\* variant: the last attempt is taken to be the one before the last
LastAttemptEarly(time_to_wait) == time_to_wait >= max_time_to_wait - 1

\* variant: one more attempt is made before giving up
LastAttemptLate(time_to_wait) == time_to_wait = max_time_to_wait + 1

\* time_to_wait == max_time_to_wait
LastAttempt(time_to_wait) == time_to_wait = max_time_to_wait

(***************************************************************************)
(* State.                                                                  *)
(***************************************************************************)
VARIABLES
    self,           \* the hook's attributes
    compute_project_id, \* self._compute_hook.project_id
    conn,           \* the connection stored under self.gcp_conn_id
    server,         \* the instance's metadata at the provider
    externalWrites, \* number of writes by other clients so far
    pc,             \* position of the call
    missing_fields, \* local of get_conn
    hostname,       \* local of get_conn
    keysGenerated,  \* number of keys generated so far
    privkey,        \* local of get_conn: number of the key, 0 before generation
    pubkey,         \* local of get_conn: public key text
    retry,          \* loop variable of get_conn
    user,           \* local of get_conn
    proxy_command,  \* local of get_conn: TRUE when a proxy command was built
    metadata,       \* local of _authorize_compute_engine_instance_metadata
    time_to_wait,   \* loop variable of _connect_to_instance
    exc,            \* exception in flight inside get_conn
    delay,          \* local of get_conn; -1 while no backoff is pending
    sshclient,      \* local of get_conn
    raised,         \* exception that left get_conn
    openScopes,     \* authorization scopes entered and not exited
    liveTunnels,    \* proxy commands spawned and not terminated
    calls,          \* history: collaborator calls and sleeps in program order
    peer,           \* a second get_conn call on the same instance
    cycleLog        \* history: how each finished cycle ended

vars == <<self, compute_project_id, conn, server, externalWrites, pc, missing_fields,
          hostname, keysGenerated, privkey, pubkey, retry, user, proxy_command,
          metadata, time_to_wait, exc, delay, sshclient, raised, openScopes,
          liveTunnels, calls, cycleLog, peer>>

config == <<self, compute_project_id, conn>>
keyVars == <<keysGenerated, privkey, pubkey>>
resources == <<openScopes, liveTunnels>>

NoMetadata == [fingerprint |-> -1, items |-> <<>>]
NoClient == [connected |-> FALSE, hostname |-> "", username |-> "", pkey |-> 0,
             sock |-> FALSE]

Item(k, v) == [key |-> k, value |-> v]

InitialItems ==
    { <<>>,
      <<Item("startup-script", <<"echo">>)>>,
      <<Item("ssh-keys", <<"alice", ":", "KEY0", "\n">>)>>,
      <<Item("startup-script", <<"echo">>),
        Item("ssh-keys", <<"alice", ":", "KEY0", "\n">>),
        Item("enable-oslogin", <<"FALSE">>)>> }

\* conn_type, login and host of the connection, and of its extra the fields
\* the hook asks for
Connection(type, login, host, name, zone, internal, iap, oslogin, expire, cmd) ==
    [conn_type |-> type, login |-> login, host |-> host,
     instance_name |-> name, zone |-> zone, use_internal_ip |-> internal,
     use_iap_tunnel |-> iap, use_oslogin |-> oslogin, expire_time |-> expire,
     cmd_timeout |-> cmd]

\* a connection of the default type: nothing is taken from it
PlainConnection ==
    Connection("google_cloud_platform", "", "", "", "", NoValue, NoValue,
               NoValue, NoValue, Absent)

\* no connection is stored under the id: get_connection raises
MissingConnection ==
    Connection("not_found", "", "", "", "", NoValue, NoValue, NoValue,
               NoValue, Absent)

Connections ==
    { PlainConnection,
      MissingConnection,
      Connection("gcpssh", "", "", "", "", NoValue, NoValue, NoValue,
                 NoValue, Absent),
      Connection("gcpssh", "bob", "10.0.0.5", "", "", NoValue, NoValue,
                 StrValue("false"), StrValue(" 600 "), StrValue("45")),
      Connection("gcpssh", "", "", "vm1", "us-central1-a", StrValue("Yes"),
                 BoolValue(TRUE), StrValue("True"), StrValue(" "),
                 StrValue("")),
      Connection("gcpssh", "", "", "vm1", "", StrValue("TRUE"),
                 StrValue("no"), BoolValue(TRUE), IntValue(600), IntValue(45)),
      Connection("gcpssh", "", "", "vm1", "us-central1-a", StrValue("Yes"),
                 BoolValue(TRUE), StrValue("True"), StrValue("abc"), Absent),
      Connection("gcpssh", "", "", "", "", NoValue, NoValue, NoValue,
                 NoValue, StrValue("abc")),
      Connection("gcpssh", "bob", "10.0.0.5", "", "", NoValue, NoValue,
                 StrValue("false"), ListValue, Absent),
      Connection("gcpssh", "", "", "", "", NoValue, NoValue, NoValue,
                 NoValue, ListValue) }

Hooks ==
    [ instance_name : {"", "vm1"},
      zone : {"", "us-central1-a"},
      project_id : {"", "p1"},
      user : {"root", "bob"},
      hostname : {"", "10.0.0.5"},
      use_internal_ip : BOOLEAN,
      use_iap_tunnel : BOOLEAN,
      use_oslogin : BOOLEAN,
      expire_time : {300},
      cmd_timeout : {NotSet, IntValue(30)},
      max_retries : -1..MaxRetriesBound ]

\* the locals of a call that has not started, no client created yet
InitCall ==
    /\ externalWrites = 0
    /\ pc = "start"
    /\ missing_fields = <<>>
    /\ hostname = ""
    /\ keysGenerated = 0
    /\ privkey = 0
    /\ pubkey = <<>>
    /\ retry = 0
    /\ user = ""
    /\ proxy_command = FALSE
    /\ metadata = NoMetadata
    /\ time_to_wait = 0
    /\ exc = NoExc
    /\ delay = -1
    /\ sshclient = NoClient
    /\ raised = NoExc
    /\ openScopes = 0
    /\ liveTunnels = 0
    /\ calls = <<>>
    /\ cycleLog = <<>>

\* the hook of a second call; it is idle unless the call is started
PeerUser == "dave"
PeerKey == PubKeyText(9, PeerUser)
PeerMaxRetries == 1
NoPeer == [pc |-> "off", retry |-> 0, metadata |-> NoMetadata,
           time_to_wait |-> 0, scopes |-> 0, writes |-> 0, before |-> <<>>]

Init ==
    /\ self \in Hooks
    /\ compute_project_id \in {"", "p1"}
    \* one missing field at a time is enough to reach the validation error
    /\ Cardinality({k \in {"instance_name", "zone"} : self[k] = ""}) <= 1
    /\ self.project_id = "p1" => compute_project_id = ""
    /\ self.user = "bob" => ~self.use_oslogin /\ ~self.use_internal_ip
    /\ server \in [fingerprint : {0}, items : InitialItems]
    /\ self.use_oslogin => server.items = <<>>
    \* the address, user, project and metadata layouts are varied most for
    \* the budget of one cycle, less for two; the others run on one layout
    /\ conn \in Connections
    \* a connection of type gcpssh is tried with the budget of one cycle
    /\ self.max_retries # 0 => conn = PlainConnection
    \* a cmd_timeout given to the constructor matters with such a connection
    /\ self.cmd_timeout # NotSet =>
          /\ conn \notin {PlainConnection, MissingConnection}
          /\ self.instance_name # ""
          /\ self.user = "root"
          /\ self.hostname = ""
          /\ ~self.use_internal_ip
          /\ Len(server.items) \in {0, 3}
    /\ self.max_retries = 1 =>
          /\ Len(server.items) \in {0, 3}
          /\ self.instance_name # ""
          /\ self.zone # ""
          /\ ~(self.use_internal_ip /\ self.use_iap_tunnel)
    /\ self.max_retries \notin {0, 1} =>
          /\ ~self.use_internal_ip
          /\ ~self.use_iap_tunnel
          /\ self.hostname = ""
          /\ self.user = "root"
          /\ self.instance_name # ""
          /\ self.zone # ""
          /\ self.project_id = "p1"
          /\ ~self.use_oslogin => Len(server.items) = 3
    /\ peer = NoPeer
    /\ InitCall

(***************************************************************************)
(* Helpers of the actions.                                                 *)
(***************************************************************************)
Call(entry) == calls' = Append(calls, entry)

\* variant: the upper end is one too high
RandIntWide(lo, hi) == lo..(hi + 1)

\* random.randint(0, max_delay): both ends included
RandInt(lo, hi) == lo..hi

\* proxy_command is not None
ProxyCommandFor(h) == h.use_iap_tunnel

\* the provider rejects a write whose fingerprint is not the current one
Stale(md) == md.fingerprint # server.fingerprint

\* lines 249-265: build the proxy command and enter _connect_to_instance
EnterConnect ==
    /\ proxy_command' = ProxyCommandFor(self)
    /\ time_to_wait' = 0
    /\ pc' = "connect"

\* an exception leaves the try block of the current cycle
Throw(e) ==
    /\ exc' = e
    /\ pc' = "except"

(***************************************************************************)
(* get_conn, lines 207-216: load the configuration, default the project,   *)
(* validate the required parameters.                                       *)
(***************************************************************************)
CheckConfig ==
    /\ pc = "start"
    /\ LET load == LoadConnectionConfig(self, conn)
           loaded == load.hook
           h == [loaded EXCEPT !.project_id =
                    IF Falsy(loaded.project_id) THEN compute_project_id
                    ELSE loaded.project_id]
       IN  IF load.exc # NoExc
           THEN \* line 207 raises
                /\ self' = loaded
                /\ missing_fields' = missing_fields
                /\ raised' = load.exc
                /\ pc' = "raised"
           ELSE /\ self' = h
                /\ missing_fields' = MissingFields(h)
                /\ IF \/ Falsy(h.instance_name)
                      \/ Falsy(h.zone)
                      \/ Falsy(h.project_id)
                   THEN /\ raised' = MissingParameters
                        /\ pc' = "raised"
                   ELSE /\ raised' = raised
                        /\ pc' = "resolve"
    /\ UNCHANGED <<compute_project_id, conn, peer, server, externalWrites,
                   hostname, keyVars,
                   retry, user, proxy_command, metadata, time_to_wait, exc,
                   delay, sshclient, resources, calls, cycleLog>>

(***************************************************************************)
(* get_conn, lines 228-236: the address of the instance.                   *)
(***************************************************************************)
ResolveAddress ==
    /\ pc = "resolve"
    /\ IF Falsy(self.hostname)
       THEN \E ok \in BOOLEAN :
              /\ Call([op |-> "get_instance_address",
                       internal |-> UseInternalAddress(self), ok |-> ok])
              /\ IF ok
                 THEN /\ hostname' = IF UseInternalAddress(self)
                                     THEN "10.128.0.2" ELSE "34.10.0.2"
                      /\ pc' = "genkey"
                      /\ raised' = raised
                 ELSE /\ hostname' = hostname
                      /\ pc' = "raised"
                      /\ raised' = AirflowOther
       ELSE /\ hostname' = self.hostname
            /\ pc' = "genkey"
            /\ UNCHANGED <<calls, raised>>
    /\ UNCHANGED <<config, peer, server, externalWrites, missing_fields, keyVars,
                   retry, user, proxy_command, metadata, time_to_wait, exc,
                   delay, sshclient, resources, cycleLog>>

(***************************************************************************)
(* get_conn, lines 238-242, and _generate_ssh_key: the keypair of the      *)
(* call, then entry into the retry loop.                                   *)
(***************************************************************************)
GenerateKey ==
    /\ pc = "genkey"
    /\ \E ok \in BOOLEAN :
          /\ Call([op |-> "generate_key", key |-> keysGenerated + 1, ok |-> ok])
          /\ keysGenerated' = keysGenerated + 1
          /\ IF ok
             THEN /\ privkey' = keysGenerated + 1
                  /\ pubkey' = PubKeyText(keysGenerated + 1, self.user)
                  /\ retry' = 0
                  /\ pc' = IF RangeEmpty(self.max_retries)
                            THEN "after_loop" ELSE "authorize"
                  /\ raised' = raised
             ELSE /\ raised' = KeyGenerationFailed
                  /\ pc' = "raised"
                  /\ UNCHANGED <<privkey, pubkey, retry>>
    /\ UNCHANGED <<config, peer, server, externalWrites, missing_fields, hostname,
                   user, proxy_command, metadata, time_to_wait, exc, delay,
                   sshclient, resources, cycleLog>>

(***************************************************************************)
(* get_conn, lines 244-245, and _authorize_os_login: register the public   *)
(* key with the login registry; the user is the first POSIX account.       *)
(***************************************************************************)
AuthorizeOsLogin ==
    /\ pc = "authorize"
    /\ self.use_oslogin
    /\ \E out \in OsLoginOutcomes :
       \E accounts \in IF out = NoExc THEN PosixAccountLists ELSE {<<>>} :
          /\ Call([op |-> "import_ssh_public_key", retry |-> retry,
                   key |-> pubkey, accounts |-> accounts,
                   ok |-> out = NoExc, exc |-> out])
          /\ IF out = NoExc
             THEN /\ user' = FirstAccount(accounts)
                  /\ EnterConnect
                  /\ exc' = exc
             ELSE /\ Throw(out)
                  /\ UNCHANGED <<user, proxy_command, time_to_wait>>
    /\ UNCHANGED <<config, peer, server, externalWrites, missing_fields, hostname,
                   keyVars, retry, metadata, delay, sshclient, raised,
                   resources, cycleLog>>

(***************************************************************************)
(* Variant of GetInstanceInfo: the metadata path is not tied to            *)
(* use_oslogin being false.                                                *)
(***************************************************************************)
GetInstanceInfoAlways ==
    /\ pc = "authorize"
    /\ user' = self.user
    /\ \E out \in InfoOutcomes :
          /\ Call([op |-> "get_instance_info", retry |-> retry,
                   fingerprint |-> server.fingerprint, items |-> server.items,
                   ok |-> out = NoExc, exc |-> out])
          /\ IF out = NoExc
             THEN /\ metadata' = server
                  /\ pc' = "set_metadata"
                  /\ exc' = exc
             ELSE /\ Throw(out)
                  /\ metadata' = metadata
    /\ UNCHANGED <<config, peer, server, externalWrites, missing_fields, hostname,
                   keyVars, retry, proxy_command, time_to_wait, delay,
                   sshclient, raised, resources, cycleLog>>

(***************************************************************************)
(* Variant of GetInstanceInfo: the metadata read in an earlier cycle is    *)
(* kept and used again instead of being read anew.                         *)
(***************************************************************************)
GetInstanceInfoCached ==
    /\ pc = "authorize"
    /\ ~self.use_oslogin
    /\ user' = self.user
    /\ LET reads == {i \in 1..Len(calls) :
                        calls[i].op = "get_instance_info" /\ calls[i].ok}
       IN  IF reads # {}
           THEN LET j == CHOOSE i \in reads : \A k \in reads : k <= i
                IN  /\ metadata' = [fingerprint |-> calls[j].fingerprint,
                                    items |-> calls[j].items]
                    /\ pc' = "set_metadata"
                    /\ UNCHANGED <<calls, exc>>
           ELSE \E out \in InfoOutcomes :
                  /\ Call([op |-> "get_instance_info", retry |-> retry,
                           fingerprint |-> server.fingerprint,
                           items |-> server.items,
                           ok |-> out = NoExc, exc |-> out])
                  /\ IF out = NoExc
                     THEN /\ metadata' = server
                          /\ pc' = "set_metadata"
                          /\ exc' = exc
                     ELSE /\ Throw(out)
                          /\ metadata' = metadata
    /\ UNCHANGED <<config, peer, server, externalWrites, missing_fields, hostname,
                   keyVars, retry, proxy_command, time_to_wait, delay,
                   sshclient, raised, resources, cycleLog>>

(***************************************************************************)
(* get_conn, lines 247-248, and                                            *)
(* _authorize_compute_engine_instance_metadata, lines 310-313: read the    *)
(* instance's metadata.                                                    *)
(***************************************************************************)
GetInstanceInfo ==
    /\ pc = "authorize"
    /\ ~self.use_oslogin
    /\ user' = self.user
    /\ \E out \in InfoOutcomes :
          /\ Call([op |-> "get_instance_info", retry |-> retry,
                   fingerprint |-> server.fingerprint, items |-> server.items,
                   ok |-> out = NoExc, exc |-> out])
          /\ IF out = NoExc
             THEN /\ metadata' = server
                  /\ pc' = "set_metadata"
                  /\ exc' = exc
             ELSE /\ Throw(out)
                  /\ metadata' = metadata
    /\ UNCHANGED <<config, peer, server, externalWrites, missing_fields, hostname,
                   keyVars, retry, proxy_command, time_to_wait, delay,
                   sshclient, raised, resources, cycleLog>>

(***************************************************************************)
(* Variant of SetInstanceMetadata: the result of the write is not waited   *)
(* for, the handshake starts whatever the provider answers.                *)
(***************************************************************************)
SetInstanceMetadataUnchecked ==
    /\ pc = "set_metadata"
    /\ LET new == [metadata EXCEPT
                      !.items = InjectKey(metadata.items, self.user, pubkey)]
       IN  \E out \in SetMetadataOutcomes :
              /\ Stale(metadata) => out \in {Http412, Airflow412, Airflow412Detail}
              /\ Call([op |-> "set_instance_metadata", retry |-> retry,
                       user |-> self.user, key |-> pubkey,
                       base |-> metadata.items, items |-> new.items,
                       fingerprint |-> new.fingerprint, ok |-> out = NoExc,
                       exc |-> out])
              /\ server' = IF out = NoExc
                           THEN [fingerprint |-> server.fingerprint + 1,
                                 items |-> new.items]
                           ELSE server
              /\ EnterConnect
              /\ exc' = exc
    /\ metadata' = NoMetadata
    /\ UNCHANGED <<config, peer, externalWrites, missing_fields, hostname, keyVars,
                   retry, user, delay, sshclient, raised, resources, cycleLog>>

(***************************************************************************)
(* Variant of SetInstanceMetadata: the fingerprint that came with the read *)
(* is not sent back, so the provider has nothing to reject the write by.   *)
(***************************************************************************)
SetInstanceMetadataBlind ==
    /\ pc = "set_metadata"
    /\ LET new == [metadata EXCEPT
                      !.items = InjectKey(metadata.items, self.user, pubkey)]
       IN  \E out \in SetMetadataOutcomes :
              /\ Call([op |-> "set_instance_metadata", retry |-> retry,
                       user |-> self.user, key |-> pubkey,
                       base |-> metadata.items, items |-> new.items,
                       fingerprint |-> new.fingerprint, ok |-> out = NoExc,
                       exc |-> out])
              /\ IF out = NoExc
                 THEN /\ server' = [fingerprint |-> server.fingerprint + 1,
                                    items |-> new.items]
                      /\ EnterConnect
                      /\ exc' = exc
                 ELSE /\ Throw(out)
                      /\ UNCHANGED <<server, proxy_command, time_to_wait>>
    /\ metadata' = NoMetadata
    /\ UNCHANGED <<config, peer, externalWrites, missing_fields, hostname,
                   keyVars, retry, user, delay, sshclient, raised, resources,
                   cycleLog>>

(***************************************************************************)
(* _authorize_compute_engine_instance_metadata, lines 315-329: put the new *)
(* line into the ssh-keys item and write the metadata back.                *)
(***************************************************************************)
SetInstanceMetadata ==
    /\ pc = "set_metadata"
    /\ LET new == [metadata EXCEPT
                      !.items = InjectKey(metadata.items, self.user, pubkey)]
       IN  \E out \in SetMetadataOutcomes :
              /\ Stale(metadata) => out \in {Http412, Airflow412, Airflow412Detail}
              /\ Call([op |-> "set_instance_metadata", retry |-> retry,
                       user |-> self.user, key |-> pubkey,
                       base |-> metadata.items, items |-> new.items,
                       fingerprint |-> new.fingerprint, ok |-> out = NoExc,
                   exc |-> out])
              /\ IF out = NoExc
                 THEN /\ server' = [fingerprint |-> server.fingerprint + 1,
                                    items |-> new.items]
                      /\ EnterConnect
                      /\ exc' = exc
                 ELSE /\ Throw(out)
                      /\ UNCHANGED <<server, proxy_command, time_to_wait>>
    /\ metadata' = NoMetadata
    /\ UNCHANGED <<config, peer, externalWrites, missing_fields, hostname, keyVars,
                   retry, user, delay, sshclient, raised, resources, cycleLog>>

(***************************************************************************)
(* _connect_to_instance, lines 288-304: one iteration of the handshake     *)
(* loop, in the three blocking steps it is made of.  Nothing in the hook   *)
(* closes a client whose connect raised: openScopes counts __enter__ calls *)
(* without their __exit__, liveTunnels counts proxy commands the hook      *)
(* spawned and did not close.  (paramiko closes the socket itself when the *)
(* transport dies; after an authentication failure the transport, and with *)
(* it the tunnel, lives on.)                                               *)
(*                                                                         *)
(* Lines 289-298: the client is created and the arguments of connect are   *)
(* evaluated, which spawns the proxy command when there is one.            *)
(***************************************************************************)
SpawnTunnel ==
    /\ pc = "connect"
    /\ \E spawned \in IF proxy_command THEN BOOLEAN ELSE {TRUE} :
          IF ~spawned
          THEN \* paramiko.ProxyCommand raises, connect is not called
               /\ Call([op |-> "proxy_command", retry |-> retry,
                        attempt |-> time_to_wait, ok |-> FALSE,
                        exc |-> OtherExc])
               /\ Throw(OtherExc)
               /\ liveTunnels' = liveTunnels
          ELSE /\ liveTunnels' = IF proxy_command THEN liveTunnels + 1
                                 ELSE liveTunnels
               /\ pc' = "enter_scope"
               /\ UNCHANGED <<calls, exc>>
    /\ UNCHANGED <<config, peer, server, externalWrites, missing_fields, hostname,
                   keyVars, retry, user, proxy_command, metadata, time_to_wait,
                   delay, sshclient, raised, openScopes, cycleLog>>

(***************************************************************************)
(* _GCloudAuthorizedSSHClient.connect, lines 54-55: the authorization      *)
(* scope is entered.                                                       *)
(***************************************************************************)
EnterScope ==
    /\ pc = "enter_scope"
    /\ \E out \in ScopeOutcomes :
          IF out = NoExc
          THEN /\ openScopes' = openScopes + 1
               /\ pc' = "handshake"
               /\ UNCHANGED <<calls, exc>>
          ELSE /\ Call([op |-> "provide_authorized_gcloud", retry |-> retry,
                        attempt |-> time_to_wait, ok |-> FALSE, exc |-> out])
               /\ Throw(out)
               /\ openScopes' = openScopes
    /\ UNCHANGED <<config, peer, server, externalWrites, missing_fields, hostname,
                   keyVars, retry, user, proxy_command, metadata, time_to_wait,
                   delay, sshclient, raised, liveTunnels, cycleLog>>

(***************************************************************************)
(* _GCloudAuthorizedSSHClient.connect, line 56, and _connect_to_instance,  *)
(* lines 299-304: the handshake and what follows from its outcome.         *)
(***************************************************************************)
Connect ==
    /\ pc = "handshake"
    /\ \E out \in ConnectOutcomes :
          /\ Call([op |-> "connect", retry |-> retry, attempt |-> time_to_wait,
                   hostname |-> hostname, username |-> user, pkey |-> privkey,
                   proxy |-> proxy_command, ok |-> out = NoExc,
                   exc |-> out])
          /\ IF out = NoExc
             THEN /\ sshclient' = [connected |-> TRUE, hostname |-> hostname,
                                   username |-> user, pkey |-> privkey,
                                   sock |-> proxy_command]
                  /\ pc' = "connected"
                  /\ exc' = exc
             ELSE /\ sshclient' = sshclient
                  /\ IF out.type = "SSHException" /\ ~LastAttempt(time_to_wait)
                     THEN /\ pc' = "wait"
                          /\ exc' = exc
                     ELSE Throw(out)
    /\ UNCHANGED <<config, peer, server, externalWrites, missing_fields, hostname,
                   keyVars, retry, user, proxy_command, metadata, time_to_wait,
                   delay, raised, resources, cycleLog>>

(***************************************************************************)
(* Variant of InnerWait: the waits are counted from 1.                     *)
(***************************************************************************)
InnerWaitFromOne ==
    /\ pc = "wait"
    /\ Call([op |-> "sleep", kind |-> "inner", retry |-> retry,
             secs |-> time_to_wait + 1])
    /\ time_to_wait' = time_to_wait + 1
    /\ pc' = "connect"
    /\ UNCHANGED <<config, peer, server, externalWrites, missing_fields, hostname,
                   keyVars, retry, user, proxy_command, metadata, exc, delay,
                   sshclient, raised, resources, cycleLog>>

(***************************************************************************)
(* _connect_to_instance, lines 305-306: wait before the next attempt.      *)
(***************************************************************************)
InnerWait ==
    /\ pc = "wait"
    /\ Call([op |-> "sleep", kind |-> "inner", retry |-> retry,
             secs |-> time_to_wait])
    /\ time_to_wait' = time_to_wait + 1
    /\ pc' = "connect"
    /\ UNCHANGED <<config, peer, server, externalWrites, missing_fields, hostname,
                   keyVars, retry, user, proxy_command, metadata, exc, delay,
                   sshclient, raised, resources, cycleLog>>

(***************************************************************************)
(* get_conn, lines 267-277: the exception handler of the retry loop.       *)
(***************************************************************************)
HandleException ==
    /\ pc = "except"
    /\ cycleLog' = Append(cycleLog, exc)
    /\ exc' = NoExc
    /\ IF ~Retryable(exc)
       THEN /\ raised' = exc
            /\ pc' = "raised"
       ELSE IF BudgetExhausted(retry, self.max_retries)
            THEN /\ raised' = MaxRetriesExceeded
                 /\ pc' = "raised"
            ELSE /\ raised' = raised
                 /\ pc' = "backoff"
    /\ UNCHANGED <<config, peer, server, externalWrites, missing_fields, hostname,
                   keyVars, retry, user, proxy_command, metadata, time_to_wait,
                   delay, sshclient, resources, calls>>

(***************************************************************************)
(* get_conn, lines 278-279: draw the delay.                                *)
(***************************************************************************)
Backoff ==
    /\ pc = "backoff"
    /\ delay' \in RandInt(0, max_delay)
    /\ pc' = "sleep"
    /\ UNCHANGED <<config, peer, server, externalWrites, missing_fields, hostname,
                   keyVars, retry, user, proxy_command, metadata, time_to_wait,
                   exc, sshclient, raised, resources, calls, cycleLog>>

(***************************************************************************)
(* Variant of Sleep: the keypair is generated again at the start of every  *)
(* cycle, as if line 238 stood inside the loop.                            *)
(***************************************************************************)
SleepWithNewKey ==
    /\ pc = "sleep"
    /\ calls' = calls \o <<[op |-> "sleep", kind |-> "outer", retry |-> retry],
                           [op |-> "generate_key", key |-> keysGenerated + 1,
                            ok |-> TRUE]>>
    /\ keysGenerated' = keysGenerated + 1
    /\ privkey' = keysGenerated + 1
    /\ pubkey' = PubKeyText(keysGenerated + 1, self.user)
    /\ delay' = -1
    /\ retry' = retry + 1
    /\ pc' = "authorize"
    /\ UNCHANGED <<config, peer, server, externalWrites, missing_fields, hostname,
                   user, proxy_command, metadata, time_to_wait, exc,
                   sshclient, raised, resources, cycleLog>>

(***************************************************************************)
(* get_conn, line 280 and the next iteration of line 242: sleep, then      *)
(* start the next cycle.  delay is dead once the sleep has returned.       *)
(***************************************************************************)
Sleep ==
    /\ pc = "sleep"
    /\ Call([op |-> "sleep", kind |-> "outer", retry |-> retry])
    /\ delay' = -1
    /\ retry' = retry + 1
    /\ pc' = "authorize"
    /\ UNCHANGED <<config, peer, server, externalWrites, missing_fields, hostname,
                   keyVars, user, proxy_command, metadata, time_to_wait, exc,
                   sshclient, raised, resources, cycleLog>>

(***************************************************************************)
(* get_conn, lines 266 and 281-283: the loop is left, by break or because  *)
(* its range was empty; the client is returned when there is one.          *)
(***************************************************************************)
Return ==
    /\ pc \in {"connected", "after_loop"}
    /\ IF sshclient = NoClient
       THEN /\ raised' = UnableToEstablish
            /\ pc' = "raised"
            /\ cycleLog' = cycleLog
       ELSE /\ raised' = raised
            /\ pc' = "done"
            /\ cycleLog' = Append(cycleLog, NoExc)
    /\ UNCHANGED <<config, peer, server, externalWrites, missing_fields, hostname,
                   keyVars, retry, user, proxy_command, metadata, time_to_wait,
                   exc, delay, sshclient, resources, calls>>

(***************************************************************************)
(* _GCloudAuthorizedSSHClient.close and __exit__, lines 58-68: the caller  *)
(* closes the client it was given.  The authorization scope of that client *)
(* is exited and paramiko closes its sock.                                 *)
(***************************************************************************)
Close ==
    /\ pc = "done"
    /\ openScopes' = openScopes - 1
    /\ liveTunnels' = IF sshclient.sock THEN liveTunnels - 1 ELSE liveTunnels
    /\ sshclient' = [sshclient EXCEPT !.connected = FALSE]
    /\ pc' = "closed"
    /\ UNCHANGED <<config, peer, server, externalWrites, missing_fields, hostname,
                   keyVars, retry, user, proxy_command, metadata, time_to_wait,
                   exc, delay, raised, calls, cycleLog>>

(***************************************************************************)
(* Another client of the same instance adds its own line to ssh-keys.  The *)
(* call observes the metadata only when it reads or writes it, so the      *)
(* write is placed right before one of the two.                            *)
(***************************************************************************)
ExternalWrite ==
    /\ pc \in {"authorize", "set_metadata"}
    /\ ~self.use_oslogin
    /\ externalWrites < MaxExternalWrites
    /\ externalWrites' = externalWrites + 1
    /\ server' = [fingerprint |-> server.fingerprint + 1,
                  items |-> InjectKey(server.items, "carol",
                                      <<"ssh-rsa", " ", "KEYX", " ", "carol">>)]
    /\ UNCHANGED <<config, peer, pc, missing_fields, hostname, keyVars, retry, user,
                   proxy_command, metadata, time_to_wait, exc, delay, sshclient,
                   raised, resources, calls, cycleLog>>

Next ==
    \/ CheckConfig
    \/ ResolveAddress
    \/ GenerateKey
    \/ AuthorizeOsLogin
    \/ GetInstanceInfo
    \/ SetInstanceMetadata
    \/ SpawnTunnel
    \/ EnterScope
    \/ Connect
    \/ InnerWait
    \/ HandleException
    \/ Backoff
    \/ Sleep
    \/ Return
    \/ Close
    \/ ExternalWrite

Spec == Init /\ [][Next]_vars

\* the steps of the call itself
CallStep ==
    \/ CheckConfig
    \/ ResolveAddress
    \/ GenerateKey
    \/ AuthorizeOsLogin
    \/ GetInstanceInfo
    \/ SetInstanceMetadata
    \/ SpawnTunnel
    \/ EnterScope
    \/ Connect
    \/ InnerWait
    \/ HandleException
    \/ Backoff
    \/ Sleep
    \/ Return

\* the call is one blocking call stack: as long as every collaborator call
\* and every sleep returns, its next step is taken
SpecLive == Init /\ [][Next]_vars /\ WF_vars(CallStep)

(***************************************************************************)
(* A second get_conn call on the same instance, made through a hook of its *)
(* own with the metadata strategy.  Of that call the steps that read or    *)
(* write the instance's metadata are kept, with the retry loop around      *)
(* them; its key and its user are its own.                                 *)
(***************************************************************************)
callVars == <<config, externalWrites, pc, missing_fields, hostname, keyVars,
              retry, user, proxy_command, metadata, time_to_wait, exc, delay,
              sshclient, raised, resources, calls, cycleLog>>

\* the value of the ssh-keys item, empty when there is no such item
SshKeysValue(items) ==
    IF SshKeysIndex(items) = 0 THEN <<>> ELSE items[SshKeysIndex(items)].value

\* lines 267-277 for the second call: raise, or go on to the backoff
PeerHandle(p, e) ==
    IF Retryable(e) /\ ~BudgetExhausted(p.retry, PeerMaxRetries)
    THEN [p EXCEPT !.pc = "sleep", !.metadata = NoMetadata]
    ELSE [p EXCEPT !.pc = "raised", !.metadata = NoMetadata]

\* lines 310-313 for the second call
PeerGetInstanceInfo ==
    /\ peer.pc = "authorize"
    /\ \E out \in InfoOutcomes :
          peer' = IF out = NoExc
                  THEN [peer EXCEPT !.pc = "set_metadata", !.metadata = server]
                  ELSE PeerHandle(peer, out)
    /\ UNCHANGED <<callVars, server>>

\* lines 315-329 for the second call
PeerSetInstanceMetadata ==
    /\ peer.pc = "set_metadata"
    /\ \E out \in SetMetadataOutcomes :
          /\ Stale(peer.metadata) =>
                out \in {Http412, Airflow412, Airflow412Detail}
          /\ IF out = NoExc
             THEN /\ server' =
                        [fingerprint |-> server.fingerprint + 1,
                         items |-> InjectKey(peer.metadata.items, PeerUser,
                                             PeerKey)]
                  /\ peer' = [peer EXCEPT !.pc = "connect",
                                          !.metadata = NoMetadata,
                                          !.time_to_wait = 0,
                                          !.writes = peer.writes + 1]
             ELSE /\ server' = server
                  /\ peer' = PeerHandle(peer, out)
    /\ UNCHANGED callVars

\* lines 54-55 for the second call: its client, made for the attempt,
\* enters the authorization scope (the second call uses no tunnel)
PeerEnterScope ==
    /\ peer.pc = "connect"
    /\ \E out \in ScopeOutcomes :
          peer' = IF out = NoExc
                  THEN [peer EXCEPT !.pc = "handshake",
                                    !.scopes = peer.scopes + 1]
                  ELSE PeerHandle(peer, out)
    /\ UNCHANGED <<callVars, server>>

\* lines 56 and 299-304 for the second call: the handshake of the attempt
PeerConnect ==
    /\ peer.pc = "handshake"
    /\ \E out \in ConnectOutcomes :
          peer' = IF out = NoExc
                  THEN [peer EXCEPT !.pc = "done"]
                  ELSE IF /\ out.type = "SSHException"
                          /\ ~LastAttempt(peer.time_to_wait)
                       THEN [peer EXCEPT !.pc = "wait"]
                       ELSE PeerHandle(peer, out)
    /\ UNCHANGED <<callVars, server>>

\* lines 305-306 for the second call
PeerInnerWait ==
    /\ peer.pc = "wait"
    /\ peer' = [peer EXCEPT !.pc = "connect",
                            !.time_to_wait = peer.time_to_wait + 1]
    /\ UNCHANGED <<callVars, server>>

\* lines 278-280 and 242 for the second call: the backoff sleep, then the
\* next cycle
PeerSleep ==
    /\ peer.pc = "sleep"
    /\ peer' = [peer EXCEPT !.pc = "authorize", !.retry = peer.retry + 1]
    /\ UNCHANGED <<callVars, server>>

\* two calls about to start: one hook each, the same instance
InitTwo ==
    /\ self \in Hooks
    /\ self.instance_name = "vm1"
    /\ self.zone = "us-central1-a"
    /\ self.project_id = "p1"
    /\ self.user = "root"
    /\ self.hostname = ""
    /\ ~self.use_internal_ip
    /\ ~self.use_iap_tunnel
    /\ ~self.use_oslogin
    /\ self.max_retries = 1
    /\ self.cmd_timeout = NotSet
    /\ compute_project_id = ""
    /\ conn = PlainConnection
    /\ server \in [fingerprint : {0}, items : InitialItems]
    /\ peer = [NoPeer EXCEPT !.pc = "authorize",
                             !.before = SshKeysValue(server.items)]
    /\ InitCall

NextTwo ==
    \/ CheckConfig
    \/ ResolveAddress
    \/ GenerateKey
    \/ GetInstanceInfo
    \/ SetInstanceMetadata
    \/ SpawnTunnel
    \/ EnterScope
    \/ Connect
    \/ InnerWait
    \/ HandleException
    \/ Backoff
    \/ Sleep
    \/ Return
    \/ PeerGetInstanceInfo
    \/ PeerSetInstanceMetadata
    \/ PeerEnterScope
    \/ PeerConnect
    \/ PeerInnerWait
    \/ PeerSleep

SpecTwo == InitTwo /\ [][NextTwo]_vars

TypeOK ==
    /\ pc \in {"start", "resolve", "genkey", "authorize", "set_metadata",
               "connect", "enter_scope", "handshake", "wait", "except",
               "backoff", "sleep", "connected",
               "after_loop", "done", "closed", "raised"}
    /\ retry \in 0..(IF self.max_retries < 0 THEN 0 ELSE self.max_retries)
    /\ time_to_wait \in 0..max_time_to_wait
    /\ delay \in -1..max_delay
    /\ peer.pc \in {"off", "authorize", "set_metadata", "connect",
                   "handshake", "wait",
                   "sleep", "done", "raised"}
    /\ peer.time_to_wait \in 0..max_time_to_wait
    /\ peer.retry \in 0..PeerMaxRetries

(***************************************************************************)
(* Reading the history.                                                    *)
(***************************************************************************)
CallIdx == 1..Len(calls)

PublishOps == {"import_ssh_public_key", "set_instance_metadata"}
AuthorizeOps == {"import_ssh_public_key", "get_instance_info",
                 "set_instance_metadata"}

\* calls that hand the public key to the registry or to the metadata
PublishIdx == {i \in CallIdx : calls[i].op \in PublishOps}

\* first collaborator call of each cycle
CycleStartIdx ==
    {i \in CallIdx : calls[i].op \in {"import_ssh_public_key", "get_instance_info"}}

ConnectIdx == {i \in CallIdx : calls[i].op = "connect"}

\* entries a handshake attempt can leave: the connect call, or the failure
\* of the tunnel or of the authorization scope before it
AttemptOps == {"proxy_command", "provide_authorized_gcloud", "connect"}

\* line 207 raised: the configuration was not loaded
LoadFailed ==
    /\ pc = "raised"
    /\ raised \in {ConnectionNotFound, ExpireTimeNotInteger, ValueErrorExc,
                   TypeErrorExc}

OuterSleepIdx ==
    {i \in CallIdx : calls[i].op = "sleep" /\ calls[i].kind = "outer"}

IsOuterSleep(i) == calls[i].op = "sleep" /\ calls[i].kind = "outer"
IsInnerSleep(i) == calls[i].op = "sleep" /\ calls[i].kind = "inner"

PreconditionFailures == {Http412, Airflow412, Airflow412Detail}
RetryableFailures == {Http412, Airflow412, Airflow412Detail, SSHExc}

Finished == pc \in {"done", "closed", "raised"}

(***************************************************************************)
(* C1 (as stated): the public key published in cycle i differs from the    *)
(* public key published in every other cycle j # i.                        *)
(***************************************************************************)
C1_FreshKeyEveryCycle ==
    \A i, j \in PublishIdx :
        calls[i].retry # calls[j].retry => calls[i].key # calls[j].key

(***************************************************************************)
(* C1 (amended): one get_conn call generates a single keypair, before the  *)
(* retry loop; every cycle publishes the public key of that keypair and    *)
(* every handshake attempt offers its private key.                         *)
(***************************************************************************)
C1_OneKeyPerCall ==
    /\ keysGenerated <= 1
    /\ \A i \in PublishIdx : calls[i].key = <<"ssh-rsa", " ", "KEY1", " ", self.user>>
    /\ \A i \in ConnectIdx : calls[i].pkey = 1
    /\ \A i \in CallIdx :
          calls[i].op = "generate_key" =>
             \A j \in PublishIdx \cup ConnectIdx : i < j

C1_Witness ==
    /\ \E i, j \in PublishIdx :
          /\ calls[i].retry = 0
          /\ calls[j].retry = 2
          /\ calls[i].key = calls[j].key
    /\ \E i \in ConnectIdx : calls[i].retry = 2

(***************************************************************************)
(* C2: when every cycle ends in a retryable failure, the call makes        *)
(* exactly max_retries + 1 cycles and raises "Maximum retries exceeded";   *)
(* at no time have more than max_retries + 1 cycles been started.  (The    *)
(* statement is about calls that run at least one cycle: with a negative   *)
(* max_retries the loop body never runs and line 282 raises.)              *)
(***************************************************************************)
C2_ExactlyBudgetCycles ==
    /\ Cardinality(CycleStartIdx) <= self.max_retries + 1
    /\ Len(cycleLog) <= self.max_retries + 1
    /\ ( /\ pc = "raised"
         /\ Len(cycleLog) >= 1
         /\ \A i \in 1..Len(cycleLog) : cycleLog[i] \in RetryableFailures )
       => /\ Len(cycleLog) = self.max_retries + 1
          /\ Cardinality(CycleStartIdx) = self.max_retries + 1
          /\ \A r \in 0..self.max_retries :
                \E i \in CycleStartIdx : calls[i].retry = r
          /\ raised = MaxRetriesExceeded
          /\ raised \notin RetryableFailures

C2_Witness ==
    /\ pc = "raised"
    /\ self.max_retries = 2
    /\ cycleLog = <<SSHExc, Http412, Airflow412>>
    /\ raised = MaxRetriesExceeded

(***************************************************************************)
(* C3: a metadata write rejected with 412 is followed by the backoff sleep *)
(* and another cycle while budget remains; a publish call that fails with  *)
(* anything else is the last collaborator call of get_conn, nothing (no    *)
(* publish, handshake or sleep) follows it, and the exception that leaves  *)
(* get_conn is that very exception.                                        *)
(***************************************************************************)
C3_PublishErrorClasses ==
    \A i \in CallIdx :
        (calls[i].op \in AuthorizeOps /\ ~calls[i].ok) =>
            IF calls[i].exc \in PreconditionFailures
            THEN IF calls[i].retry < self.max_retries
                 THEN /\ i = Len(calls) => pc \in {"except", "backoff", "sleep"}
                      /\ i < Len(calls) =>
                            /\ IsOuterSleep(i + 1)
                            /\ calls[i + 1].retry = calls[i].retry
                      /\ i + 1 < Len(calls) =>
                            /\ i + 2 \in CycleStartIdx
                            /\ calls[i + 2].retry = calls[i].retry + 1
                 ELSE /\ i = Len(calls)
                      /\ pc \in {"except", "raised"}
                      /\ pc = "raised" => raised = MaxRetriesExceeded
            ELSE /\ i = Len(calls)
                 /\ pc \in {"except", "raised"}
                 /\ pc = "raised" => raised = calls[i].exc

C3_Witness ==
    /\ pc = "raised"
    /\ raised = Http403
    /\ Len(calls) >= 4
    /\ calls[Len(calls)].op = "set_instance_metadata"
    /\ calls[Len(calls)].retry = 1
    /\ \E i \in CallIdx :
          /\ calls[i].op = "set_instance_metadata"
          /\ calls[i].retry = 0
          /\ calls[i].exc = Http412

(***************************************************************************)
(* C4: with max_retries = 0 one cycle is attempted; when it fails get_conn *)
(* raises right after the failing call, and the backoff of lines 278-280   *)
(* is never drawn nor slept.  (The waits between the handshake attempts of *)
(* the one cycle are not backoff sleeps.)                                  *)
(***************************************************************************)
C4_ZeroRetries ==
    self.max_retries = 0 =>
        /\ Cardinality(CycleStartIdx) <= 1
        /\ Len(cycleLog) <= 1
        /\ OuterSleepIdx = {}
        /\ pc \notin {"backoff", "sleep"}
        /\ delay = -1
        /\ (Finished /\ privkey # 0) => Cardinality(CycleStartIdx) = 1
        /\ (Len(cycleLog) = 1 /\ cycleLog[1] # NoExc) =>
              /\ pc = "raised"
              /\ calls[Len(calls)].op \in
                    AuthorizeOps \cup AttemptOps
              /\ ~calls[Len(calls)].ok

C4_Witness ==
    /\ self.max_retries = 0
    /\ pc = "raised"
    /\ cycleLog = <<SSHExc>>
    /\ raised = MaxRetriesExceeded
    /\ Cardinality(ConnectIdx) = 6

(***************************************************************************)
(* C5: use_oslogin, no tunnel, max_retries = 2, the handshake of the first *)
(* cycle fails and the second cycle succeeds.                              *)
(***************************************************************************)
C5_Scenario ==
    /\ self.use_oslogin
    /\ ~self.use_iap_tunnel
    /\ self.max_retries = 2
    /\ pc = "done"
    /\ cycleLog = <<SSHExc, NoExc>>

RegistrationIdx == {i \in CallIdx : calls[i].op = "import_ssh_public_key"}

\* C5 (as stated): 2 keypairs are generated, 2 registrations are made and
\* the session holds the private key of the second keypair.
C5_TwoKeysTwoRegistrations ==
    C5_Scenario =>
        /\ keysGenerated = 2
        /\ Cardinality(RegistrationIdx) = 2
        /\ sshclient.pkey = 2

\* C5 (amended): 1 keypair is generated, 2 registrations are made, both of
\* the public key of that keypair, and the session holds its private key.
C5_OneKeyTwoRegistrations ==
    C5_Scenario =>
        /\ keysGenerated = 1
        /\ Cardinality({i \in CallIdx : calls[i].op = "generate_key"}) = 1
        /\ Cardinality(RegistrationIdx) = 2
        /\ \A i \in RegistrationIdx :
              calls[i].key = <<"ssh-rsa", " ", "KEY1", " ", self.user>>
        /\ sshclient.connected
        /\ sshclient.pkey = 1

C5_Witness ==
    /\ C5_Scenario
    /\ sshclient.connected
    /\ \E i \in ConnectIdx : calls[i].retry = 0 /\ calls[i].attempt = 5

(***************************************************************************)
(* C6: with use_oslogin = false every handshake attempt is preceded, in    *)
(* its own cycle, by a metadata write that succeeded.                      *)
(***************************************************************************)
C6_WriteBeforeHandshake ==
    ~self.use_oslogin =>
        \A i \in ConnectIdx :
            \E j \in 1..(i - 1) :
                /\ calls[j].op = "set_instance_metadata"
                /\ calls[j].ok
                /\ calls[j].retry = calls[i].retry

C6_Witness ==
    /\ ~self.use_oslogin
    /\ \E i \in ConnectIdx : calls[i].retry = 1
    /\ \E j \in CallIdx :
          /\ calls[j].op = "set_instance_metadata"
          /\ calls[j].retry = 0
          /\ ~calls[j].ok

(***************************************************************************)
(* C7: when the metadata read has an ssh-keys item with value V, the value *)
(* written is user ":" key "\n" followed by V, and after a successful      *)
(* write that is the value the instance holds.                             *)
(***************************************************************************)
C7_InjectionPrepends ==
    \A i \in CallIdx :
        calls[i].op = "set_instance_metadata" =>
            LET base == calls[i].base
                k == SshKeysIndex(base)
            IN  k # 0 =>
                  /\ calls[i].items[k].value =
                        <<self.user, ":">> \o calls[i].key \o <<"\n">>
                           \o base[k].value
                  /\ (i = Len(calls) /\ calls[i].ok /\ pc = "connect") =>
                        server.items[k].value = calls[i].items[k].value

C7_Witness ==
    /\ self.user = "bob"
    /\ \E i \in CallIdx :
          /\ calls[i].op = "set_instance_metadata"
          /\ calls[i].ok
          /\ calls[i].base = <<Item("ssh-keys", <<"alice", ":", "KEY0", "\n">>)>>
          /\ calls[i].items =
                <<Item("ssh-keys", <<"bob", ":", "ssh-rsa", " ", "KEY1", " ", "bob",
                                     "\n", "alice", ":", "KEY0", "\n">>)>>

(***************************************************************************)
(* C8: with a hostname set, the address is never looked up and every       *)
(* handshake attempt goes to that hostname; without one, the address is    *)
(* looked up once, internal exactly when use_internal_ip or use_iap_tunnel *)
(* is set, and every handshake attempt goes to the address looked up.      *)
(***************************************************************************)
LookupIdx == {i \in CallIdx : calls[i].op = "get_instance_address"}

C8_AddressSelection ==
    IF self.hostname # ""
    THEN /\ LookupIdx = {}
         /\ \A i \in ConnectIdx : calls[i].hostname = self.hostname
    ELSE /\ Cardinality(LookupIdx) <= 1
         /\ \A i \in LookupIdx :
               calls[i].internal = (self.use_internal_ip \/ self.use_iap_tunnel)
         /\ \A i \in ConnectIdx :
               /\ \E j \in LookupIdx : j < i /\ calls[j].ok
               /\ calls[i].hostname =
                     IF self.use_internal_ip \/ self.use_iap_tunnel
                     THEN "10.128.0.2" ELSE "34.10.0.2"

C8_Witness ==
    /\ self.hostname = "10.0.0.5"
    /\ LookupIdx = {}
    /\ \E i \in ConnectIdx : calls[i].retry = 1 /\ calls[i].hostname = "10.0.0.5"

(***************************************************************************)
(* C9: a cycle makes at most 6 handshake attempts; an SSHException on one  *)
(* of the first 5 is followed by the wait and the next attempt of the same *)
(* cycle; an SSHException on the 6th ends the cycle, which the handler     *)
(* treats as retryable: backoff and next cycle while budget remains,       *)
(* "Maximum retries exceeded" otherwise, never the SSHException itself.    *)
(* (An attempt begins with the spawning of the tunnel and the entering of  *)
(* the authorization scope, which may fail before connect is called.)      *)
(***************************************************************************)
C9_InnerLoop ==
    /\ \A r \in 0..self.max_retries :
          Cardinality({i \in ConnectIdx : calls[i].retry = r}) <= 6
    /\ raised # SSHExc
    /\ \A i \in ConnectIdx :
          /\ calls[i].attempt \in 0..5
          /\ (calls[i].exc = SSHExc /\ calls[i].attempt < 5) =>
                /\ i = Len(calls) => pc = "wait"
                /\ i < Len(calls) =>
                      /\ IsInnerSleep(i + 1)
                      /\ calls[i + 1].retry = calls[i].retry
                /\ i + 1 < Len(calls) =>
                      /\ calls[i + 2].op \in AttemptOps
                      /\ calls[i + 2].retry = calls[i].retry
                      /\ calls[i + 2].attempt = calls[i].attempt + 1
          /\ (calls[i].exc = SSHExc /\ calls[i].attempt = 5) =>
                /\ Len(cycleLog) > calls[i].retry =>
                      cycleLog[calls[i].retry + 1] = SSHExc
                /\ IF calls[i].retry < self.max_retries
                   THEN /\ i = Len(calls) => pc \in {"except", "backoff", "sleep"}
                        /\ i < Len(calls) => IsOuterSleep(i + 1)
                   ELSE /\ i = Len(calls)
                        /\ pc \in {"except", "raised"}
                        /\ pc = "raised" => raised = MaxRetriesExceeded

C9_Witness ==
    /\ Cardinality({i \in ConnectIdx : calls[i].retry = 0 /\ calls[i].exc = SSHExc}) = 6
    /\ \E i \in ConnectIdx : calls[i].retry = 1
    /\ cycleLog = <<SSHExc>>

(***************************************************************************)
(* C10: the backoff sleep happens once after every cycle that failed       *)
(* retryably and was not the last permitted one, right after the failing   *)
(* call, with a duration in 0..10; it happens after no other cycle.        *)
(***************************************************************************)
Slept(r) == Cardinality({i \in OuterSleepIdx : calls[i].retry = r})

C10_BackoffSleep ==
    /\ pc = "sleep" => delay \in 0..10
    /\ pc # "sleep" => delay = -1
    /\ \A r \in 0..self.max_retries :
          IF /\ r < Len(cycleLog)
             /\ cycleLog[r + 1] \in RetryableFailures
             /\ r < self.max_retries
          THEN \/ Slept(r) = 1
               \/ Slept(r) = 0 /\ retry = r /\ pc \in {"backoff", "sleep"}
          ELSE Slept(r) = 0
    /\ \A i \in OuterSleepIdx :
          /\ i > 1
          /\ calls[i - 1].op \in AuthorizeOps \cup {"connect"}
          /\ calls[i - 1].exc \in RetryableFailures
          /\ calls[i - 1].retry = calls[i].retry
          /\ calls[i].retry < self.max_retries

C10_Witness ==
    /\ pc = "sleep"
    /\ delay = 10
    /\ retry = 1
    /\ Slept(0) = 1
    /\ cycleLog = <<Http412, SSHExc>>

(***************************************************************************)
(* C11: when instance_name, zone or project_id (after the default from the *)
(* compute hook) is missing, get_conn raises the "Required parameters are  *)
(* missing" error with the list of exactly the missing fields, before any  *)
(* address lookup, key generation, publication, tunnel or handshake, and   *)
(* outside the retry loop; with no field missing that error is not raised. *)
(* (When the loading itself raises, at line 207, the fields are not        *)
(* examined; nothing has been called by then either.)                      *)
(***************************************************************************)
C11_ExpectedMissing ==
    (IF self.instance_name = "" THEN <<"instance_name">> ELSE <<>>)
    \o (IF self.zone = "" THEN <<"zone">> ELSE <<>>)
    \o (IF self.project_id = "" THEN <<"project_id">> ELSE <<>>)

C11_MissingParameters ==
    /\ LoadFailed => calls = <<>> /\ keysGenerated = 0 /\ cycleLog = <<>>
    /\ (pc # "start" /\ ~LoadFailed) =>
        /\ missing_fields = C11_ExpectedMissing
        /\ IF C11_ExpectedMissing # <<>>
           THEN /\ pc = "raised"
                /\ raised = MissingParameters
                /\ calls = <<>>
                /\ cycleLog = <<>>
                /\ keysGenerated = 0
                /\ privkey = 0
                /\ openScopes = 0
                /\ liveTunnels = 0
                /\ retry = 0
                /\ delay = -1
           ELSE raised # MissingParameters

C11_Witness ==
    /\ pc = "raised"
    /\ raised = MissingParameters
    /\ missing_fields = <<"zone", "project_id">>
    /\ self.instance_name = "vm1"

(***************************************************************************)
(* C12 (as stated): the authorization scope of a failed handshake attempt  *)
(* is closed before the next attempt and before the error propagates; no   *)
(* scope is open when get_conn raises, exactly one when it returns.        *)
(***************************************************************************)
C12_ScopesClosed ==
    /\ pc \in {"wait", "except", "backoff", "sleep", "authorize",
               "set_metadata", "connect", "enter_scope"} => openScopes = 0
    /\ pc = "handshake" => openScopes = 1
    /\ pc = "raised" => openScopes = 0
    /\ pc \in {"connected", "done"} => openScopes = 1
    /\ pc = "closed" => openScopes = 0

(***************************************************************************)
(* C13 (as stated): the tunnel of a failed handshake attempt is torn down, *)
(* so at most one tunnel is live at any moment, none after get_conn        *)
(* raised, and after a return only the tunnel of the returned session.     *)
(***************************************************************************)
C13_TunnelsTornDown ==
    /\ liveTunnels <= 1
    /\ pc \in {"wait", "except", "backoff", "sleep", "authorize",
               "set_metadata", "connect", "raised"} => liveTunnels = 0
    /\ pc \in {"enter_scope", "handshake"} =>
          liveTunnels = IF self.use_iap_tunnel THEN 1 ELSE 0
    /\ pc \in {"connected", "done"} =>
          liveTunnels = IF self.use_iap_tunnel THEN 1 ELSE 0
    /\ pc = "closed" => liveTunnels = 0

(***************************************************************************)
(* C14: the waits of the handshake loop.                                   *)
(***************************************************************************)
InnerSleepsOf(r) ==
    SelectSeq(calls, LAMBDA c : c.op = "sleep" /\ c.kind = "inner" /\ c.retry = r)

\* the seconds waited in cycle r, in order
WaitSecs(r) == [i \in 1..Len(InnerSleepsOf(r)) |-> InnerSleepsOf(r)[i].secs]

AllSixFailed(r) ==
    Cardinality({i \in ConnectIdx : calls[i].retry = r /\ calls[i].exc = SSHExc}) = 6

\* C14 (as stated): a cycle in which all 6 attempts fail waits
\* 0, 1, 2, 3, 4, 5 seconds.
C14_WaitsZeroToFive ==
    \A r \in 0..self.max_retries :
        AllSixFailed(r) => WaitSecs(r) = <<0, 1, 2, 3, 4, 5>>

\* C14 (amended): the wait after the failed attempt number i (i = 0..4) is
\* i seconds and nothing is waited after the 6th failed attempt: a cycle in
\* which all 6 attempts fail waits 0, 1, 2, 3, 4 seconds.
C14_WaitsZeroToFour ==
    /\ \A r \in 0..self.max_retries :
          AllSixFailed(r) => WaitSecs(r) = <<0, 1, 2, 3, 4>>
    /\ \A i \in CallIdx :
          IsInnerSleep(i) =>
             /\ i > 1
             /\ calls[i - 1].op = "connect"
             /\ calls[i - 1].exc = SSHExc
             /\ calls[i - 1].retry = calls[i].retry
             /\ calls[i].secs = calls[i - 1].attempt
             /\ calls[i].secs \in 0..4
    /\ \A i \in ConnectIdx :
          (calls[i].attempt = 5 /\ i < Len(calls)) => ~IsInnerSleep(i + 1)

C14_Witness ==
    /\ AllSixFailed(0)
    /\ AllSixFailed(1)
    /\ WaitSecs(1) = <<0, 1, 2, 3, 4>>
    /\ pc = "raised"

(***************************************************************************)
(* C15: every metadata write is built from a read made in the same cycle,  *)
(* right before it; after a write rejected with 412 the next cycle starts  *)
(* with a new read, so no snapshot of an earlier cycle is written.         *)
(***************************************************************************)
C15_FreshReadEveryCycle ==
    \A i \in CallIdx :
        calls[i].op = "set_instance_metadata" =>
           /\ i > 1
           /\ calls[i - 1].op = "get_instance_info"
           /\ calls[i - 1].ok
           /\ calls[i - 1].retry = calls[i].retry
           /\ calls[i].base = calls[i - 1].items
           /\ calls[i].fingerprint = calls[i - 1].fingerprint
           /\ (calls[i].exc \in PreconditionFailures /\ i + 2 <= Len(calls)) =>
                 /\ calls[i + 2].op = "get_instance_info"
                 /\ calls[i + 2].retry = calls[i].retry + 1

C15_Witness ==
    \E i, j \in CallIdx :
        /\ calls[i].op = "set_instance_metadata"
        /\ calls[i].retry = 0
        /\ calls[i].exc = Http412
        /\ calls[j].op = "set_instance_metadata"
        /\ calls[j].retry = 1
        /\ calls[j].ok
        /\ calls[j].base # calls[i].base
        /\ calls[j].fingerprint # calls[i].fingerprint

(***************************************************************************)
(* C16: with use_oslogin the call never reads or writes the instance       *)
(* metadata, without it the call never registers a key with the login      *)
(* registry; all cycles of a call publish the same way.                    *)
(***************************************************************************)
MetadataOps == {"get_instance_info", "set_instance_metadata"}

C16_OneStrategy ==
    /\ self.use_oslogin => \A i \in CallIdx : calls[i].op \notin MetadataOps
    /\ ~self.use_oslogin => \A i \in CallIdx : calls[i].op # "import_ssh_public_key"
    /\ \A i, j \in CycleStartIdx : calls[i].op = calls[j].op
    /\ \A r \in 0..self.max_retries :
          Cardinality({i \in CycleStartIdx : calls[i].retry = r}) <= 1

C16_Witness ==
    /\ self.use_oslogin
    /\ \A r \in 0..2 : \E i \in RegistrationIdx : calls[i].retry = r
    /\ \A i \in CallIdx : calls[i].op \notin MetadataOps
    /\ pc = "done"

(***************************************************************************)
(* C17: every handshake attempt offers the username of its own cycle's     *)
(* publish step: with use_oslogin the username of the first POSIX account  *)
(* of that cycle's registry response, otherwise the configured user, which *)
(* is also the user at the head of the line put into ssh-keys.             *)
(***************************************************************************)
C17_UsernameOfCycle ==
    \A i \in ConnectIdx :
        LET published == {j \in PublishIdx :
                             j < i /\ calls[j].retry = calls[i].retry /\ calls[j].ok}
        IN  /\ Cardinality(published) = 1
            /\ \A j \in published :
                  IF self.use_oslogin
                  THEN calls[i].username = calls[j].accounts[1]
                  ELSE /\ calls[i].username = self.user
                       /\ LET k == SshKeysIndex(calls[j].items)
                          IN  /\ k # 0
                              /\ calls[j].items[k].value[1] = calls[i].username
                              /\ calls[j].items[k].value[2] = ":"

C17_Witness ==
    /\ self.use_oslogin
    /\ self.user = "root"
    /\ \E i, j \in ConnectIdx :
          /\ calls[i].retry = 0
          /\ calls[i].username = "sa_100"
          /\ calls[j].retry = 1
          /\ calls[j].username = "root"

(***************************************************************************)
(* C20: the write differs from the read in the ssh-keys item only.  With   *)
(* an ssh-keys item in the read, the items keep their number, order and,   *)
(* but for that item's value, their content; without one, the items are    *)
(* written back unchanged, followed by one ssh-keys item that holds the    *)
(* new line alone.                                                         *)
(***************************************************************************)
SshKeysCount(items) ==
    Cardinality({j \in 1..Len(items) : items[j].key = "ssh-keys"})

C20_OnlySshKeysChanges ==
    \A i \in CallIdx :
        calls[i].op = "set_instance_metadata" =>
            LET base == calls[i].base
                items == calls[i].items
                k == SshKeysIndex(base)
            IN  IF k # 0
                THEN /\ Len(items) = Len(base)
                     /\ \A j \in 1..Len(base) : j # k => items[j] = base[j]
                     /\ items[k].key = "ssh-keys"
                     /\ items[k].value # base[k].value
                     /\ SshKeysCount(items) = SshKeysCount(base)
                ELSE /\ Len(items) = Len(base) + 1
                     /\ \A j \in 1..Len(base) : items[j] = base[j]
                     /\ items[Len(items)] =
                           [key |-> "ssh-keys",
                            value |-> <<self.user, ":">> \o calls[i].key \o <<"\n">>]
                     /\ SshKeysCount(items) = 1

C20_Witness ==
    \E i \in CallIdx :
        /\ calls[i].op = "set_instance_metadata"
        /\ calls[i].ok
        /\ calls[i].base = <<Item("startup-script", <<"echo">>)>>
        /\ calls[i].items =
              <<Item("startup-script", <<"echo">>),
                Item("ssh-keys", <<"root", ":", "ssh-rsa", " ", "KEY1", " ", "root", "\n">>)>>
        /\ server.items = calls[i].items

(***************************************************************************)
(* C19: every call ends, either returning a client whose connect           *)
(* succeeded or raising, and by then it has made at most max_retries + 1   *)
(* publish steps and at most 6 * (max_retries + 1) handshake attempts.     *)
(* (The history only grows, so the final counts bound all earlier ones.)   *)
(***************************************************************************)
C19_Ended ==
    /\ Finished
    /\ Cardinality(CycleStartIdx) <= self.max_retries + 1
    /\ Cardinality(PublishIdx) <= self.max_retries + 1
    /\ Cardinality(ConnectIdx) <= 6 * (self.max_retries + 1)
    /\ pc = "done" =>
          /\ raised = NoExc
          /\ sshclient.connected
          /\ calls[Len(calls)].op = "connect"
          /\ calls[Len(calls)].ok
    /\ pc = "raised" =>
          /\ raised # NoExc
          /\ ~sshclient.connected

C19_Terminates == <>[]C19_Ended

C19_Witness ==
    /\ pc = "raised"
    /\ self.max_retries = 2
    /\ Cardinality(CycleStartIdx) = 3
    /\ Cardinality(ConnectIdx) = 18

(***************************************************************************)
(* C18: two calls on the same instance, both with the metadata strategy,   *)
(* the provider rejecting every write made from a stale read.  Once each   *)
(* call has written successfully, the ssh-keys value holds the key line of *)
(* either call and all that was in it before the calls started.            *)
(***************************************************************************)
WroteMetadata ==
    \E i \in CallIdx : calls[i].op = "set_instance_metadata" /\ calls[i].ok

C18_NoLostUpdate ==
    (WroteMetadata /\ peer.writes > 0) =>
        /\ Contains(SshKeysValue(server.items), KeyLine(self.user, pubkey))
        /\ Contains(SshKeysValue(server.items), KeyLine(PeerUser, PeerKey))
        /\ Contains(SshKeysValue(server.items), peer.before)

C18_Witness ==
    /\ WroteMetadata
    /\ peer.writes > 0
    /\ peer.before # <<>>
    /\ \E i \in CallIdx :
          /\ calls[i].op = "set_instance_metadata"
          /\ IsPreconditionFailed(calls[i].exc)
          /\ calls[i].base # server.items
          /\ SshKeysValue(calls[i].base) = peer.before

====
